---- MODULE Spec2Model ----
(***************************************************************************)
(* Model of the tree engine of the Directory Manager (src/main.py):        *)
(* class Node, class DirectoryManager and its operations create, delete    *)
(* and move, with the helpers they call.                                   *)
(*                                                                         *)
(* A Python str is a sequence of one-character strings, so that split,     *)
(* strip, lower and the comparisons of the code are computed, not assumed. *)
(* The object graph is a heap: a function from node identities to Node     *)
(* objects; a children dict is a function from names to node identities.   *)
(***************************************************************************)
EXTENDS Integers, Sequences, FiniteSets, TLC

\* The largest number of Node objects, the root not counted, that may be
\* alive at once (an operation that would need more is not taken).
MaxNodes == 4

\* The largest length of the path specifications that are enumerated
\* character by character.
MaxLen == 4

VARIABLES
    heap,   \* the live Node objects: identity -> [name, children]
    pre,    \* the heap as it was when the command being reported was called
    last    \* the command just run (its arguments, the answer typed, its
            \* report, the lines a list command printed), or op "prompt"
            \* while the loop waits for a command

vars == <<heap, pre, last>>

----------------------------------------------------------------------------
\* Python values

\* the identity of self.root
root == 0

\* Python's None, where a node identity is expected
None == -1

\* {}: a dict with no keys
EmptyDict == [k \in {} |-> None]

\* d[k] = v
DictSet(d, k, v) == [x \in (DOMAIN d) \cup {k} |-> IF x = k THEN v ELSE d[x]]

\* A faulty removal: the entry is looked up but stays in the dict.
DictDel_keep(d, k) == d

\* del d[k] / d.pop(k)
DictDel(d, k) == [x \in (DOMAIN d) \ {k} |-> d[x]]

\* Node(name): the name and an empty children dict
Node(name) == [name |-> name, children |-> EmptyDict]

\* str.split(sep) for a one-character separator: every piece, empty ones too
RECURSIVE split(_, _)
split(s, sep) ==
    IF \A i \in 1..Len(s) : s[i] # sep
    THEN <<s>>
    ELSE LET i == CHOOSE j \in 1..Len(s) :
                      s[j] = sep /\ \A k \in 1..(j - 1) : s[k] # sep
         IN  <<SubSeq(s, 1, i - 1)>> \o split(SubSeq(s, i + 1, Len(s)), sep)

\* the characters str.strip() removes
Whitespace == {" ", "\t", "\n", "\r"}

\* str.strip()
RECURSIVE strip(_)
strip(s) ==
    IF s = <<>> THEN s
    ELSE IF Head(s) \in Whitespace THEN strip(Tail(s))
    ELSE IF s[Len(s)] \in Whitespace THEN strip(SubSeq(s, 1, Len(s) - 1))
    ELSE s

\* str.lower() on one character (the letters the answers use)
LowerChar(c) ==
    CASE c = "Y" -> "y"
      [] c = "E" -> "e"
      [] c = "S" -> "s"
      [] c = "N" -> "n"
      [] c = "O" -> "o"
      [] OTHER -> c

\* str.lower()
lower(s) == [i \in 1..Len(s) |-> LowerChar(s[i])]

\* str.find(c): the index (from 0) of the first c, -1 when there is none
find(s, c) ==
    IF \E i \in 1..Len(s) : s[i] = c
    THEN (CHOOSE i \in 1..Len(s) : s[i] = c /\ \A k \in 1..(i - 1) : s[k] # c) - 1
    ELSE 0 - 1

\* str.rindex(c): the index (from 0) of the last c (called only when there is one)
rindex(s, c) ==
    (CHOOSE i \in 1..Len(s) : s[i] = c /\ \A k \in (i + 1)..Len(s) : s[k] # c) - 1

\* A faulty splitting: the empty pieces are kept.
parts_keep_empty(path) == split(path, "/")

\* [p for p in path.split('/') if p]
parts(path) == SelectSeq(split(path, "/"), LAMBDA p : p # <<>>)

\* the characters of '\/:*?"<>|'
ReservedChars == {"\\", "/", ":", "*", "?", "\"", "<", ">", "|"}

----------------------------------------------------------------------------
\* DirectoryManager helpers

\* the loop of _get_node_and_parent over parts[:-1], from current: the node
\* reached, None when a part is missing
RECURSIVE descend(_, _, _)
descend(h, current, ps) ==
    IF ps = <<>> THEN current
    ELSE IF Head(ps) \notin DOMAIN h[current].children THEN None
    ELSE descend(h, h[current].children[Head(ps)], Tail(ps))

\* _get_node_and_parent(path): (parent, node, name)
get_node_and_parent(h, path) ==
    IF path = <<>> \/ path = <<"/">>
    THEN [parent |-> None, node |-> root, name |-> <<>>]
    ELSE LET ps == parts(path) IN
         IF ps = <<>>
         THEN [parent |-> None, node |-> root, name |-> <<>>]
         ELSE LET lastp   == ps[Len(ps)]
                  current == descend(h, root, SubSeq(ps, 1, Len(ps) - 1))
              IN  IF current = None
                  THEN [parent |-> None, node |-> None, name |-> lastp]
                  ELSE [parent |-> current,
                        node   |-> IF lastp \in DOMAIN h[current].children
                                   THEN h[current].children[lastp] ELSE None,
                        name   |-> lastp]

\* A faulty validation: only the empty path is refused.
is_valid_path_nonempty_only(path) == path # <<>>

\* _is_valid_path(path)
is_valid_path(path) ==
    IF path = <<>> THEN FALSE
    ELSE LET ps == parts(path) IN
         \A i \in 1..Len(ps) :
             ~(ps[i] = <<>> \/ \E j \in 1..Len(ps[i]) : ps[i][j] \in ReservedChars)

\* A faulty test: > for >=, so that a path counts as its own subdirectory.
is_subdirectory_or_equal(parent_path, child_path) ==
    LET parent_parts == parts(parent_path)
        child_parts  == parts(child_path)
    IN  IF Len(parent_parts) > Len(child_parts) THEN FALSE
        ELSE \A i \in 1..Len(parent_parts) : parent_parts[i] = child_parts[i]

\* A faulty test: the lengths are compared the wrong way round, so that no
\* longer path counts as lying inside a shorter one.
is_subdirectory_lengths_swapped(parent_path, child_path) ==
    LET parent_parts == parts(parent_path)
        child_parts  == parts(child_path)
    IN  IF Len(parent_parts) <= Len(child_parts) THEN FALSE
        ELSE \A i \in 1..Len(child_parts) : parent_parts[i] = child_parts[i]

\* _is_subdirectory(parent_path, child_path)
is_subdirectory(parent_path, child_path) ==
    LET parent_parts == parts(parent_path)
        child_parts  == parts(child_path)
    IN  IF Len(parent_parts) >= Len(child_parts) THEN FALSE
        ELSE \A i \in 1..Len(parent_parts) : parent_parts[i] = child_parts[i]

\* [strip(p) for p in pieces if strip(p)]
StripNonEmpty(pieces) ==
    SelectSeq([i \in 1..Len(pieces) |-> strip(pieces[i])], LAMBDA p : p # <<>>)

\* A faulty expansion: the shared base ends at the first separator instead
\* of the last one.
expand_path_list_first_separator(path) ==
    IF find(path, ",") = 0 - 1 THEN <<path>>
    ELSE IF find(path, "/") = 0 - 1 \/ find(path, ",") < find(path, "/")
    THEN StripNonEmpty(split(path, ","))
    ELSE LET base_path == SubSeq(path, 1, find(path, "/") + 1)
             names == StripNonEmpty(split(SubSeq(path, Len(base_path) + 1, Len(path)), ","))
         IN  [i \in 1..Len(names) |-> base_path \o names[i]]

\* _expand_path_list(path)
expand_path_list(path) ==
    IF find(path, ",") = 0 - 1 THEN <<path>>
    ELSE IF find(path, "/") = 0 - 1 \/ find(path, ",") < find(path, "/")
    THEN StripNonEmpty(split(path, ","))
    ELSE LET base_path == SubSeq(path, 1, rindex(path, "/") + 1)
             names == StripNonEmpty(split(SubSeq(path, Len(base_path) + 1, Len(path)), ","))
         IN  [i \in 1..Len(names) |-> base_path \o names[i]]

\* the identity a new Node object gets: one no live object has
NewId(h) == CHOOSE n \in 1..Cardinality(DOMAIN h) :
                n \notin DOMAIN h /\ \A m \in 1..(n - 1) : m \in DOMAIN h

\* A faulty insertion: the new node becomes the only child, the dict is
\* replaced instead of extended.
AddChild_alone(h, current, part) ==
    LET n == NewId(h) IN
    [i \in (DOMAIN h) \cup {n} |->
        IF i = n THEN Node(part)
        ELSE IF i = current THEN [h[i] EXCEPT !.children = DictSet(EmptyDict, part, n)]
        ELSE h[i]]

\* current.children[part] = Node(part)
AddChild(h, current, part) ==
    LET n == NewId(h) IN
    [i \in (DOMAIN h) \cup {n} |->
        IF i = n THEN Node(part)
        ELSE IF i = current THEN [h[i] EXCEPT !.children = DictSet(@, part, n)]
        ELSE h[i]]

\* A faulty loop: it makes a new Node for every part, present or not.
RECURSIVE make_dirs_overwrite(_, _, _)
make_dirs_overwrite(h, current, ps) ==
    IF ps = <<>> THEN [heap |-> h, current |-> current]
    ELSE LET h1 == AddChild(h, current, Head(ps))
         IN  make_dirs_overwrite(h1, h1[current].children[Head(ps)], Tail(ps))

\* A faulty loop: it returns after the first part instead of going on.
make_dirs_first_only(h, current, ps) ==
    IF ps = <<>> THEN [heap |-> h, current |-> current]
    ELSE LET part == Head(ps)
             h1   == IF part \notin DOMAIN h[current].children
                     THEN AddChild(h, current, part) ELSE h
         IN  [heap |-> h1, current |-> h1[current].children[part]]

\* the loop shared by create and move: for part in parts, make the missing
\* child and step into it; gives the heap and the node reached
RECURSIVE make_dirs(_, _, _)
make_dirs(h, current, ps) ==
    IF ps = <<>> THEN [heap |-> h, current |-> current]
    ELSE LET part == Head(ps)
             h1   == IF part \notin DOMAIN h[current].children
                     THEN AddChild(h, current, part) ELSE h
         IN  make_dirs(h1, h1[current].children[part], Tail(ps))

\* Reference counting: an object no dict refers to any longer is freed, and
\* with it its references to its children. The root is held by the manager.
RECURSIVE release(_)
release(h) ==
    LET unreferenced == {n \in (DOMAIN h) \ {root} :
                            \A m \in DOMAIN h : \A k \in DOMAIN h[m].children :
                                h[m].children[k] # n}
    IN  IF unreferenced = {} THEN h
        ELSE release([n \in (DOMAIN h) \ unreferenced |-> h[n]])

\* the nodes a walk from the root reaches
RECURSIVE reach(_, _)
reach(h, S) ==
    LET T == S \cup UNION {{h[m].children[k] : k \in DOMAIN h[m].children} : m \in S}
    IN  IF T = S THEN S ELSE reach(h, T)

\* the characters of the model's strings, in the order of their code points
CodeOrder ==
    << "\t", "\n", "\r", " ", "\"", "*", ",", "/", ":", "<", ">", "?",
       "E", "N", "O", "S", "Y", "\\",
       "a", "b", "e", "i", "l", "n", "o", "r", "s", "t", "y", "|" >>

\* the rank of a character in that order
CharRank(c) == CHOOSE i \in 1..Len(CodeOrder) : CodeOrder[i] = c

\* s < t on Python strings: the first differing character decides, a
\* proper prefix comes first
StrLess(s, t) ==
    \E i \in 1..Len(t) :
        /\ \A j \in 1..(i - 1) : j <= Len(s) /\ s[j] = t[j]
        /\ (i > Len(s) \/ (s[i] # t[i] /\ CharRank(s[i]) < CharRank(t[i])))

\* A faulty sort: the strings come out in descending order.
RECURSIVE sorted_descending(_)
sorted_descending(S) ==
    IF S = {} THEN <<>>
    ELSE LET m == CHOOSE x \in S : \A y \in S \ {x} : StrLess(y, x)
         IN  <<m>> \o sorted_descending(S \ {m})

\* sorted(keys): the strings of a set in ascending order
RECURSIVE sorted(_)
sorted(S) ==
    IF S = {} THEN <<>>
    ELSE LET m == CHOOSE x \in S : \A y \in S \ {x} : StrLess(x, y)
         IN  <<m>> \o sorted(S \ {m})

\* list(node, indent): the lines it prints, in order; for each the child
\* node, its name, its depth and whether it is the last of its siblings
RECURSIVE list_children(_, _, _, _, _)
list(h, node, indent) ==
    list_children(h, node, indent, sorted(DOMAIN h[node].children), 1)

\* the loop of list over the sorted children, from the i-th on
list_children(h, node, indent, children, i) ==
    IF i > Len(children) THEN <<>>
    ELSE LET child == h[node].children[children[i]]
         IN  <<[node |-> child, name |-> h[child].name, indent |-> indent,
                is_last |-> (i = Len(children))]>>
             \o list(h, child, indent + 1)
             \o list_children(h, node, indent, children, i + 1)

\* A faulty listing: it takes the entries out of the root's dict as it
\* prints them.
list_call_consuming(h) ==
    [heap |-> [h EXCEPT ![root].children = EmptyDict], listing |-> list(h, root, 0)]

\* list() called with no node, as the loop calls it: it starts at the root;
\* it reads the children dicts and assigns to none of them, so the heap it
\* leaves is the heap it was given
list_call(h) == [heap |-> h, listing |-> list(h, root, 0)]

\* Node identities cannot be observed by the program: once a command has
\* returned, the model names each node by its position in the listing (the
\* root stays 0), so that equal trees are equal heaps.
renumbered(h) ==
    LET lines  == list(h, root, 0)
        new(n) == IF n = root THEN root
                  ELSE CHOOSE i \in 1..Len(lines) : lines[i].node = n
        old(i) == IF i = root THEN root ELSE lines[i].node
    IN  [i \in 0..Len(lines) |->
            [name     |-> h[old(i)].name,
             children |-> [k \in DOMAIN h[old(i)].children |->
                              new(h[old(i)].children[k])]]]

\* The cyclic collector: objects that only refer to each other and that no
\* walk from the root reaches are reclaimed. The program cannot tell whether
\* they still exist; the model reclaims them when the command has returned.
collect(h) == [n \in reach(h, {root}) |-> h[n]]

----------------------------------------------------------------------------
\* DirectoryManager operations, as functions of the heap and the arguments

\* A faulty loop: it stops at the first invalid sub-path instead of going
\* on with the next one.
RECURSIVE create_each_stop_at_invalid(_, _)
create_each_stop_at_invalid(h, paths) ==
    IF paths = <<>> THEN [heap |-> h, report |-> <<>>]
    ELSE LET single_path == Head(paths) IN
         IF ~is_valid_path(single_path)
         THEN [heap   |-> h,
               report |-> <<[path |-> single_path, outcome |-> "invalidName"]>>]
         ELSE LET h1 == make_dirs(h, root, parts(single_path)).heap
                  r  == create_each_stop_at_invalid(h1, Tail(paths))
              IN  [heap   |-> r.heap,
                   report |-> <<[path |-> single_path, outcome |-> "success"]>>
                                  \o r.report]

\* the loop of create over the expanded paths: the heap and one record per
\* sub-path (the line create prints for it)
RECURSIVE create_each(_, _)
create_each(h, paths) ==
    IF paths = <<>> THEN [heap |-> h, report |-> <<>>]
    ELSE LET single_path == Head(paths) IN
         IF ~is_valid_path(single_path)
         THEN LET r == create_each(h, Tail(paths))
              IN  [heap   |-> r.heap,
                   report |-> <<[path |-> single_path, outcome |-> "invalidName"]>>
                                  \o r.report]
         ELSE LET h1 == make_dirs(h, root, parts(single_path)).heap
                  r  == create_each(h1, Tail(paths))
              IN  [heap   |-> r.heap,
                   report |-> <<[path |-> single_path, outcome |-> "success"]>>
                                  \o r.report]

\* create(path)
create(h, path) == create_each(h, expand_path_list(path))

\* A faulty confirmation: the answer is trimmed but not lower-cased.
confirm_deletion_no_lower(answer) ==
    strip(answer) \in {<<"y", "e", "s">>, <<"y">>}

\* _confirm_deletion(target), given the line the user types
confirm_deletion(answer) ==
    lower(strip(answer)) \in {<<"y", "e", "s">>, <<"y">>}

\* the strings delete takes for the root: ["", "/", "root", "root/", "list"]
RootAliases ==
    { <<>>, <<"/">>, <<"r", "o", "o", "t">>, <<"r", "o", "o", "t", "/">>,
      <<"l", "i", "s", "t">> }

\* delete(path), given the line the user types if asked: the heap, the
\* outcome, and whether the confirmation was asked for
delete(h, path, answer) ==
    IF path \in RootAliases
    THEN IF ~confirm_deletion(answer)
         THEN [heap |-> h, outcome |-> "cancelled", asked |-> TRUE]
         ELSE [heap    |-> release([h EXCEPT ![root].children = EmptyDict]),
               outcome |-> "deletedRoot", asked |-> TRUE]
    ELSE LET r == get_node_and_parent(h, path) IN
         IF r.parent = None \/ r.name \notin DOMAIN h[r.parent].children
         THEN [heap |-> h, outcome |-> "notFound", asked |-> FALSE]
         ELSE LET target_node == h[r.parent].children[r.name]
                  has_children == DOMAIN h[target_node].children # {}
              IN  IF has_children /\ ~confirm_deletion(answer)
                  THEN [heap |-> h, outcome |-> "cancelled", asked |-> TRUE]
                  ELSE [heap    |-> release([h EXCEPT ![r.parent].children =
                                                 DictDel(@, r.name)]),
                        outcome |-> "deletedSubtree", asked |-> has_children]

\* A faulty move_node: the source is taken out of its parent before the
\* destination is checked for a name collision.
move_node_del_first(h, src, destination) ==
    LET node_to_move == h[src.parent].children[src.name]
        h0      == [h EXCEPT ![src.parent].children = DictDel(@, src.name)]
        made    == make_dirs(h0, root, parts(destination))
        h1      == made.heap
        current == made.current
    IN  IF src.name \in DOMAIN h[current].children
        THEN [heap |-> h1, outcome |-> "destNameCollision"]
        ELSE [heap    |-> [h1 EXCEPT ![current].children =
                               DictSet(@, src.name, node_to_move)],
              outcome |-> "moved"]

\* A faulty move_node: the node is put under the destination and is not
\* taken out of its old parent.
move_node_keep_source(h, src, destination) ==
    LET node_to_move == h[src.parent].children[src.name]
        made    == make_dirs(h, root, parts(destination))
        h1      == made.heap
        current == made.current
    IN  IF src.name \in DOMAIN h1[current].children
        THEN [heap |-> h1, outcome |-> "destNameCollision"]
        ELSE [heap    |-> [h1 EXCEPT ![current].children =
                               DictSet(@, src.name, node_to_move)],
              outcome |-> "moved"]

\* move, after its checks (from "Get the node to be moved" on): make the
\* destination path, check for a name collision, re-parent the node.
\* src is what _get_node_and_parent gave for the source.
move_node(h, src, destination) ==
    LET node_to_move == h[src.parent].children[src.name]
        made    == make_dirs(h, root, parts(destination))
        h1      == made.heap
        current == made.current
    IN  IF src.name \in DOMAIN h1[current].children
        THEN [heap |-> h1, outcome |-> "destNameCollision"]
        ELSE LET h2 == [h1 EXCEPT ![current].children =
                             DictSet(@, src.name, node_to_move)]
                 h3 == [h2 EXCEPT ![src.parent].children = DictDel(@, src.name)]
             IN  [heap |-> h3, outcome |-> "moved"]

\* A faulty move: the check that the two strings are identical is left out.
move_no_identity_check(h, source, destination) ==
    IF ~is_valid_path(source) \/ ~is_valid_path(destination)
    THEN [heap |-> h, outcome |-> "invalidName"]
    ELSE LET src == get_node_and_parent(h, source) IN
         IF src.parent = None \/ src.name \notin DOMAIN h[src.parent].children
         THEN [heap |-> h, outcome |-> "sourceNotFound"]
         ELSE IF is_subdirectory(source, destination)
         THEN [heap |-> h, outcome |-> "destIsDescendant"]
         ELSE move_node(h, src, destination)

\* move(source, destination): the heap and the outcome
move(h, source, destination) ==
    IF ~is_valid_path(source) \/ ~is_valid_path(destination)
    THEN [heap |-> h, outcome |-> "invalidName"]
    ELSE IF source = destination
    THEN [heap |-> h, outcome |-> "identicalPaths"]
    ELSE LET src == get_node_and_parent(h, source) IN
         IF src.parent = None \/ src.name \notin DOMAIN h[src.parent].children
         THEN [heap |-> h, outcome |-> "sourceNotFound"]
         ELSE IF is_subdirectory(source, destination)
         THEN [heap |-> h, outcome |-> "destIsDescendant"]
         ELSE move_node(h, src, destination)

----------------------------------------------------------------------------
\* The inputs

\* path strings given to delete and to move
PathArgs ==
    { <<>>, <<"/">>, <<"/", "/">>,
      <<"a">>, <<"b">>, <<"a", "/">>, <<"a", "/", "b">>,
      <<"a", ":", "b">>, <<"l", "i", "s", "t">>, <<"l", "i", "s", "t", "/">> }

\* path specifications given to create
CreateArgs ==
    PathArgs \cup { <<"a", ",", "b">>, <<"a", "/", "a", ",", "b">>,
                    <<"a", ",", "b", "/", "b">>, <<"/", "a", ",", "b", "/", "b">>,
                    <<"a", ",", ":", ",", "b">>, <<"a", "/", ":", ",", "b">> }

\* the characters of the short path specifications: a letter, the list
\* separator, the path separator and a blank
ExpandAlphabet == {"a", ",", "/", " "}

\* the three specifications the documentation gives as examples
FruitsFamily == <<"f", "r", "u", "i", "t", "s", ",", "f", "a", "m", "i", "l", "y">>

FruitsCitrusLemonLime ==
    <<"f", "r", "u", "i", "t", "s", "/", "c", "i", "t", "r", "u", "s">>
    \o <<"/", "l", "e", "m", "o", "n", ",", "l", "i", "m", "e">>

XYZ == <<"x", ",", "y", "/", "z">>

\* path specifications given to create as the first command of a session:
\* every string of at most MaxLen characters of ExpandAlphabet, and the
\* three examples
ExpandArgs ==
    UNION {[1..n -> ExpandAlphabet] : n \in 0..MaxLen}
        \cup {FruitsFamily, FruitsCitrusLemonLime, XYZ}

\* lines typed at the confirmation prompt
Answers ==
    { <<"y">>, <<"Y", "e", "s">>, <<" ", "y", "e", "s", " ">>, <<"n", "o">>, <<>> }

\* what is on the line when nothing was typed or given
NoStr == <<>>

----------------------------------------------------------------------------
\* The state machine

\* the command loop is waiting for the next command
AtPrompt ==
    [op |-> "prompt", path |-> NoStr, destination |-> NoStr, answer |-> NoStr,
     asked |-> FALSE, outcome |-> "none", report |-> <<>>, listing |-> <<>>]

\* DirectoryManager(): an empty root node; the loop waits for a command
Init ==
    /\ heap = [n \in {root} |-> Node(<<>>)]
    /\ pre = heap
    /\ last = AtPrompt

\* the model keeps at most MaxNodes nodes besides the root
Fits(h) == Cardinality(DOMAIN h) <= MaxNodes + 1

\* directory_manager.create(path)
Create ==
    /\ last = AtPrompt
    /\ \E path \in CreateArgs :
        LET r == create(heap, path) IN
        /\ Fits(r.heap)
        /\ heap' = r.heap
        /\ pre' = heap
        /\ last' = [op |-> "create", path |-> path, destination |-> NoStr,
                    answer |-> NoStr, asked |-> FALSE, outcome |-> "done",
                    report |-> r.report, listing |-> <<>>]

\* directory_manager.create(path) as the first command, on any short string
CreateExpanded ==
    /\ last = AtPrompt
    /\ \E path \in ExpandArgs :
        LET r == create(heap, path) IN
        /\ Fits(r.heap)
        /\ heap' = r.heap
        /\ pre' = heap
        /\ last' = [op |-> "create", path |-> path, destination |-> NoStr,
                    answer |-> NoStr, asked |-> FALSE, outcome |-> "done",
                    report |-> r.report, listing |-> <<>>]

\* directory_manager.delete(path), with the line typed if it asks
Delete ==
    /\ last = AtPrompt
    /\ \E path \in PathArgs, answer \in Answers :
        LET r == delete(heap, path, answer) IN
        /\ heap' = r.heap
        /\ pre' = heap
        /\ last' = [op |-> "delete", path |-> path, destination |-> NoStr,
                    answer |-> IF r.asked THEN answer ELSE NoStr,
                    asked |-> r.asked, outcome |-> r.outcome, report |-> <<>>,
                    listing |-> <<>>]

\* directory_manager.move(source, destination)
Move ==
    /\ last = AtPrompt
    /\ \E source \in PathArgs, destination \in PathArgs :
        LET r == move(heap, source, destination) IN
        /\ Fits(r.heap)
        /\ heap' = r.heap
        /\ pre' = heap
        /\ last' = [op |-> "move", path |-> source, destination |-> destination,
                    answer |-> NoStr, asked |-> FALSE, outcome |-> r.outcome,
                    report |-> <<>>, listing |-> <<>>]

\* directory_manager.list(): the lines it prints are kept in last.listing
List ==
    /\ last = AtPrompt
    /\ LET r == list_call(heap) IN
        /\ heap' = r.heap
        /\ pre' = heap
        /\ last' = [op |-> "list", path |-> NoStr, destination |-> NoStr,
                    answer |-> NoStr, asked |-> FALSE, outcome |-> "listed",
                    report |-> <<>>, listing |-> r.listing]

\* the command has returned: the loop goes round to read the next one
Prompt ==
    /\ last # AtPrompt
    /\ heap' = renumbered(collect(heap))
    /\ pre' = heap'
    /\ last' = AtPrompt

Next == Create \/ Delete \/ Move \/ List \/ Prompt

Spec == Init /\ [][Next]_vars

\* a session whose first command is a create, up to the return of create
SpecExpand == Init /\ [][CreateExpanded]_vars

----------------------------------------------------------------------------
\* Vocabulary of the properties

\* the nodes the children dicts of the nodes in S refer to
Kids(h, S) == UNION {{h[m].children[k] : k \in DOMAIN h[m].children} : m \in S}

\* S and everything below it
RECURSIVE Closure(_, _)
Closure(h, S) ==
    LET T == S \cup Kids(h, S) IN IF T = S THEN S ELSE Closure(h, T)

\* the nodes strictly below n
Descendants(h, n) == Closure(h, Kids(h, {n}))

\* the nodes a walk from the root can reach
Reachable(h) == Closure(h, {root})

\* the dict entries that refer to n
ParentEdges(h, n) ==
    {e \in UNION {{<<m, k>> : k \in DOMAIN h[m].children} : m \in DOMAIN h} :
        h[e[1]].children[e[2]] = n}

\* the non-empty segments of a path string, read character by character
RECURSIVE SegmentsFrom(_, _)
SegmentsFrom(s, cur) ==
    IF s = <<>> THEN (IF cur = <<>> THEN <<>> ELSE <<cur>>)
    ELSE IF Head(s) = "/"
    THEN (IF cur = <<>> THEN <<>> ELSE <<cur>>) \o SegmentsFrom(Tail(s), <<>>)
    ELSE SegmentsFrom(Tail(s), Append(cur, Head(s)))

SegmentsOf(path) == SegmentsFrom(path, <<>>)

\* the node a sequence of segments leads to from the root, None if absent
RECURSIVE Walk(_, _, _)
Walk(h, n, segs) ==
    IF segs = <<>> THEN n
    ELSE IF Head(segs) \in DOMAIN h[n].children
    THEN Walk(h, h[n].children[Head(segs)], Tail(segs))
    ELSE None

NodeAt(h, segs) == Walk(h, root, segs)

\* p is a prefix of q, possibly all of it
IsPrefix(p, q) == Len(p) <= Len(q) /\ SubSeq(q, 1, Len(p)) = p

\* the outcomes with which move reports a failure
MoveFailures ==
    {"invalidName", "identicalPaths", "sourceNotFound", "destIsDescendant",
     "destNameCollision"}

----------------------------------------------------------------------------
\* C1: After any sequence of create, delete and move calls from the empty
\* tree the node structure is acyclic and unshared: no node is a child or
\* descendant of itself, every non-root node is held by exactly one dict
\* entry and the root by none; and a move whose destination is, segment by
\* segment, equal to or nested inside its source does not succeed.
C1_AcyclicUnshared ==
    /\ \A n \in DOMAIN heap : n \notin Descendants(heap, n)
    /\ \A n \in (DOMAIN heap) \ {root} : Cardinality(ParentEdges(heap, n)) = 1
    /\ ParentEdges(heap, root) = {}
    /\ (last.op = "move" /\ IsPrefix(SegmentsOf(last.path), SegmentsOf(last.destination)))
           => last.outcome # "moved"

\* C2: When move(S, D) reports success, the node that was at S is afterwards
\* at D/<last segment of S> under its own name, its whole subtree is as it
\* was, the old parent no longer holds it, and every node that was reachable
\* from the root still is.
C2_MovedSubtreeArrives ==
    (last.op = "move" /\ last.outcome = "moved") =>
        LET src  == get_node_and_parent(pre, last.path)
            n    == src.node
            dest == SegmentsOf(last.destination) \o <<src.name>>
        IN  /\ NodeAt(heap, dest) = n
            /\ heap[n].name = src.name
            /\ \A m \in Closure(pre, {n}) : m \in DOMAIN heap /\ heap[m] = pre[m]
            /\ \A k \in DOMAIN heap[src.parent].children :
                   heap[src.parent].children[k] # n
            /\ Reachable(pre) \subseteq Reachable(heap)

\* The statement of C2 for the moves whose destination names, segment by
\* segment, another place than the source.
C2_ExceptOntoItself ==
    (last.op = "move" /\ SegmentsOf(last.path) # SegmentsOf(last.destination))
        => C2_MovedSubtreeArrives

\* C3: A move that reports a failure leaves the tree exactly as it was: no
\* directory has been made along the destination, the source is where it was.
C3_FailedMoveChangesNothing ==
    (last.op = "move" /\ last.outcome \in MoveFailures) => heap = pre

\* A move has failed on a name collision: the destination is a directory
\* below the root, another one than the source's parent, and already holds
\* the source's name.
C3_Witness ==
    /\ last.op = "move"
    /\ last.outcome = "destNameCollision"
    /\ SegmentsOf(last.destination) # <<>>
    /\ NodeAt(pre, SegmentsOf(last.destination))
           \notin {get_node_and_parent(pre, last.path).parent,
                   get_node_and_parent(pre, last.path).node}
    /\ NodeAt(heap, SegmentsOf(last.path)) # None

\* the answers of Answers that are "yes" or "y" once trimmed, in any case
YesAnswers == {<<"y">>, <<"Y", "e", "s">>, <<" ", "y", "e", "s", " ">>}

\* the strings, other than "" and "/", that delete takes for the root
NamedRootAliases ==
    {<<"r", "o", "o", "t">>, <<"r", "o", "o", "t", "/">>, <<"l", "i", "s", "t">>}

\* the last command was delete(P) and P named, in the tree before it, a node
\* other than the root that had no children
DeletedALeaf ==
    /\ last.op = "delete"
    /\ SegmentsOf(last.path) # <<>>
    /\ NodeAt(pre, SegmentsOf(last.path)) # None
    /\ DOMAIN pre[NodeAt(pre, SegmentsOf(last.path))].children = {}

TrueRootForms == {<<>>, <<"/">>, <<"r", "o", "o", "t">>}

\* C5: delete clears the children of the root only when its path is a true
\* root form; for every other path string, "list" included, a successful
\* delete removes exactly the entry the path names, with its subtree, and
\* every node outside that subtree stays where it was.
C5_DeleteRemovesOnlyNamedEntry ==
    (/\ last.op = "delete"
     /\ last.outcome \in {"deletedRoot", "deletedSubtree"}
     /\ last.path \notin TrueRootForms)
        => LET n    == NodeAt(pre, SegmentsOf(last.path))
               gone == IF n = None THEN {} ELSE Closure(pre, {n})
           IN  /\ DOMAIN heap = (DOMAIN pre) \ gone
               /\ \A m \in DOMAIN heap :
                      /\ heap[m].name = pre[m].name
                      /\ \A k \in DOMAIN pre[m].children :
                             pre[m].children[k] \notin gone
                                 => /\ k \in DOMAIN heap[m].children
                                    /\ heap[m].children[k] = pre[m].children[k]

\* the prefixes of a sequence of segments, the empty one and the whole included
Prefixes(segs) == {SubSeq(segs, 1, i) : i \in 0..Len(segs)}

\* after create(P), P and every ancestor directory along it are present
CreatedAlong(P) ==
    /\ get_node_and_parent(heap, P).node # None
    /\ \A q \in Prefixes(SegmentsOf(P)) : NodeAt(heap, q) # None

\* C6 as stated: for every path P that passes isValidPath, after create(P)
\* resolve(P) yields a present node and every ancestor along P exists.
C6_AsStated ==
    (last.op = "create" /\ is_valid_path(last.path)) => CreatedAlong(last.path)

\* C6, amended: for every path P that passes isValidPath and contains no
\* comma, after create(P) resolve(P) yields a present node and every
\* ancestor directory named along P exists.
C6_CreatedPathResolves ==
    (/\ last.op = "create"
     /\ is_valid_path(last.path)
     /\ \A i \in 1..Len(last.path) : last.path[i] # ",")
        => CreatedAlong(last.path)

\* create("a/b") has run in a tree that had no "a": both were made.
C6_Witness ==
    /\ last.op = "create"
    /\ last.path = <<"a", "/", "b">>
    /\ NodeAt(pre, <<<<"a">>>>) = None
    /\ NodeAt(heap, <<<<"a">>, <<"b">>>>) # None

\* every sub-path of the last create that was reported a success was
\* already there before the call
AllWereThere ==
    \A i \in 1..Len(last.report) :
        last.report[i].outcome = "success"
            => NodeAt(pre, SegmentsOf(last.report[i].path)) # None

\* C7: create is idempotent: in any reachable tree and for any path
\* specification P, single or comma-expanded, create(P) twice gives exactly
\* the tree create(P) once gives, with the same reports; and a create of
\* paths that all exist already changes nothing (their children are kept).
C7_CreateIdempotent ==
    /\ last = AtPrompt =>
           \A P \in CreateArgs :
               LET once  == create(heap, P)
                   twice == create(once.heap, P)
               IN  Fits(once.heap)
                       => twice.heap = once.heap /\ twice.report = once.report
    /\ (last.op = "create" /\ AllWereThere) => heap = pre

\* create("a") has run, reported a success, and changed nothing: "a" was
\* there with a child, and has kept it.
C7_Witness ==
    /\ last.op = "create"
    /\ last.path = <<"a">>
    /\ last.report = <<[path |-> <<"a">>, outcome |-> "success"]>>
    /\ heap = pre
    /\ DOMAIN heap[NodeAt(heap, <<<<"a">>>>)].children # {}

\* the last command was delete(P) and P named, in the tree before it, a node
\* other than the root that had at least one child
DeletedANonEmptyDir ==
    /\ last.op = "delete"
    /\ SegmentsOf(last.path) # <<>>
    /\ NodeAt(pre, SegmentsOf(last.path)) # None
    /\ DOMAIN pre[NodeAt(pre, SegmentsOf(last.path))].children # {}

\* C8: delete of an existing non-root path whose node has a child asks for a
\* confirmation; if the answer is "yes" or "y", in any case, the entry is
\* removed; for any other answer the delete is cancelled and the tree is
\* exactly as before the call.
C8_ConfirmationDecides ==
    DeletedANonEmptyDir =>
        /\ last.asked
        /\ IF last.answer \in YesAnswers
           THEN /\ last.outcome \in {"deletedSubtree", "deletedRoot"}
                /\ NodeAt(heap, SegmentsOf(last.path)) = None
                /\ NodeAt(pre, SegmentsOf(last.path)) \notin DOMAIN heap
           ELSE /\ last.outcome = "cancelled"
                /\ heap = pre

\* A directory with a child has been deleted on the answer "Yes".
C8_Witness ==
    /\ DeletedANonEmptyDir
    /\ last.answer = <<"Y", "e", "s">>
    /\ last.outcome = "deletedSubtree"
    /\ NodeAt(heap, SegmentsOf(last.path)) = None

\* A delete of a directory with a child has been declined with "no".
C8_WitnessDeclined ==
    /\ DeletedANonEmptyDir
    /\ last.answer = <<"n", "o">>
    /\ last.outcome = "cancelled"

\* the outcomes of a create report, in order
Outcomes(report) == [i \in 1..Len(report) |-> report[i].outcome]

\* the last command was a create, and create(q) in its place gives the same
\* tree and the same outcomes
SameCreate(q) ==
    /\ create(pre, q).heap = heap
    /\ Outcomes(create(pre, q).report) = Outcomes(last.report)

\* the last command was a delete, and delete(q) in its place gives the same
\* tree and outcome (on the same answer, if the delete asked for one)
SameDelete(q) ==
    \A answer \in Answers :
        (last.asked => answer = last.answer) =>
            delete(pre, q, answer) =
                [heap |-> heap, outcome |-> last.outcome, asked |-> last.asked]

\* the last command was a move, and the move with q as its source, or as
\* its destination, gives the same tree and outcome
SameMoveFrom(q) ==
    move(pre, q, last.destination) = [heap |-> heap, outcome |-> last.outcome]

SameMoveTo(q) ==
    move(pre, last.path, q) = [heap |-> heap, outcome |-> last.outcome]

\* C9 as stated: two path strings with the same sequence of non-empty
\* segments produce the same outcome and the same resulting tree when passed
\* to create, to delete, or as the source or destination of move, in every
\* reachable tree.
C9_AsStated ==
    \A q \in CreateArgs :
        /\ (last.op = "create" /\ SegmentsOf(q) = SegmentsOf(last.path))
               => SameCreate(q)
        /\ (last.op = "delete" /\ SegmentsOf(q) = SegmentsOf(last.path))
               => SameDelete(q)
        /\ (last.op = "move" /\ SegmentsOf(q) = SegmentsOf(last.path))
               => SameMoveFrom(q)
        /\ (last.op = "move" /\ SegmentsOf(q) = SegmentsOf(last.destination))
               => SameMoveTo(q)

\* s contains the character c
Has(s, c) == \E i \in 1..Len(s) : s[i] = c

\* C9, amended: two path strings with the same sequence of non-empty
\* segments produce the same outcome and the same resulting tree when passed
\* to create, if both are non-empty and have no comma; when passed to
\* delete, if neither is one of the strings delete compares literally ("",
\* "/", "root", "root/", "list"); and as the source or the destination of
\* move, if both are non-empty and neither is, as a string, identical to
\* the other argument of the move.
C9_SeparatorsCollapse ==
    \A q \in CreateArgs :
        /\ (/\ last.op = "create"
            /\ SegmentsOf(q) = SegmentsOf(last.path)
            /\ q # <<>> /\ last.path # <<>>
            /\ ~Has(q, ",") /\ ~Has(last.path, ","))
               => SameCreate(q)
        /\ (/\ last.op = "delete"
            /\ SegmentsOf(q) = SegmentsOf(last.path)
            /\ q \notin RootAliases /\ last.path \notin RootAliases)
               => SameDelete(q)
        /\ (/\ last.op = "move"
            /\ SegmentsOf(q) = SegmentsOf(last.path)
            /\ q # <<>> /\ last.path # <<>>
            /\ q # last.destination /\ last.path # last.destination)
               => SameMoveFrom(q)
        /\ (/\ last.op = "move"
            /\ SegmentsOf(q) = SegmentsOf(last.destination)
            /\ q # <<>> /\ last.destination # <<>>
            /\ q # last.path /\ last.destination # last.path)
               => SameMoveTo(q)

\* move("a/", "b") has moved the node "a" under "b", as move("a", "b")
\* does in the tree it was called in.
C9_Witness ==
    /\ last.op = "move"
    /\ last.path = <<"a", "/">>
    /\ last.destination = <<"b">>
    /\ last.outcome = "moved"
    /\ NodeAt(heap, <<<<"b">>, <<"a">>>>) = NodeAt(pre, <<<<"a">>>>)
    /\ move(pre, <<"a">>, <<"b">>).heap = heap

\* p is a prefix of q and shorter
IsStrictPrefix(p, q) == IsPrefix(p, q) /\ Len(p) < Len(q)

\* what move(S, D) is to report in the tree h, by the order of its checks
ExpectedMoveOutcome(h, S, D) ==
    LET s == SegmentsOf(S)
        d == SegmentsOf(D)
    IN  IF ~(is_valid_path(S) /\ is_valid_path(D)) THEN "invalidName"
        ELSE IF S = D THEN "identicalPaths"
        ELSE IF s = <<>> \/ NodeAt(h, s) = None THEN "sourceNotFound"
        ELSE IF IsStrictPrefix(s, d) THEN "destIsDescendant"
        ELSE IF NodeAt(h, d \o <<s[Len(s)]>>) # None THEN "destNameCollision"
        ELSE "moved"

\* C10: move checks its preconditions in a fixed order and reports the first
\* that fails: (1) both paths pass isValidPath, (2) the two strings are not
\* identical, (3) the source resolves to an existing node, (4) the
\* destination is not inside the source; the name collision at the
\* destination is looked at only when all four pass.
C10_MoveCheckOrder ==
    last.op = "move"
        => last.outcome = ExpectedMoveOutcome(pre, last.path, last.destination)

\* A move has reported the missing source although its destination lay
\* inside the source: the third check came before the fourth.
C10_Witness ==
    /\ last.op = "move"
    /\ last.outcome = "sourceNotFound"
    /\ IsStrictPrefix(SegmentsOf(last.path), SegmentsOf(last.destination))
    /\ SegmentsOf(last.path) # <<>>

\* A move has reported the destination inside the source although the
\* destination already held the source's name: the fourth check came before
\* the collision check.
C10_WitnessBeforeCollision ==
    /\ last.op = "move"
    /\ last.outcome = "destIsDescendant"
    /\ NodeAt(pre, SegmentsOf(last.destination) \o
                   <<get_node_and_parent(pre, last.path).name>>) # None

\* C11 as stated: move(A, B) where B is a strict descendant path of A (A
\* naming a place below the root) always fails with the
\* DestinationIsDescendant outcome and leaves the tree unchanged, for every
\* A, every such B and every reachable tree.
C11_AsStated ==
    (/\ last.op = "move"
     /\ SegmentsOf(last.path) # <<>>
     /\ IsStrictPrefix(SegmentsOf(last.path), SegmentsOf(last.destination)))
        => last.outcome = "destIsDescendant" /\ heap = pre

\* C11, amended: move(A, B) where B is a strict descendant path of A always
\* fails and leaves the tree unchanged; it fails with InvalidName when A or
\* B does not pass isValidPath, otherwise with the not-found outcome when A
\* does not resolve to an existing node below the root, and otherwise with
\* DestinationIsDescendant.
C11_DescendantMoveFails ==
    (/\ last.op = "move"
     /\ IsStrictPrefix(SegmentsOf(last.path), SegmentsOf(last.destination)))
        => /\ heap = pre
           /\ last.outcome =
                  IF ~(is_valid_path(last.path) /\ is_valid_path(last.destination))
                  THEN "invalidName"
                  ELSE IF SegmentsOf(last.path) = <<>>
                          \/ NodeAt(pre, SegmentsOf(last.path)) = None
                  THEN "sourceNotFound"
                  ELSE "destIsDescendant"

\* move("a", "a/b") has been refused as a move into the source's own
\* subtree, in a tree where both a and a/b were there.
C11_Witness ==
    /\ last.op = "move"
    /\ last.path = <<"a">>
    /\ last.destination = <<"a", "/", "b">>
    /\ NodeAt(pre, <<<<"a">>, <<"b">>>>) # None
    /\ last.outcome = "destIsDescendant"
    /\ heap = pre

\* C12 as stated: move(A, A) always fails with the IdenticalPaths outcome,
\* for every path string A and every reachable tree.
C12_AsStated ==
    (last.op = "move" /\ last.path = last.destination)
        => last.outcome = "identicalPaths"

\* C12, amended: move(A, A) always fails and leaves the tree unchanged, for
\* every path string A and every reachable tree: with InvalidName when A
\* does not pass isValidPath (A is empty or a segment of A has a reserved
\* character), and with IdenticalPaths for every other A, whether or not A
\* exists.
C12_MoveOntoSameString ==
    (last.op = "move" /\ last.path = last.destination)
        => /\ heap = pre
           /\ last.outcome = IF is_valid_path(last.path) THEN "identicalPaths"
                                                          ELSE "invalidName"

\* move("a", "a") has been refused as a move onto the same path, in a tree
\* where a was there.
C12_Witness ==
    /\ last.op = "move"
    /\ last.path = <<"a">>
    /\ last.destination = <<"a">>
    /\ NodeAt(pre, <<<<"a">>>>) # None
    /\ last.outcome = "identicalPaths"

\* the node whose children dict holds n
ParentOf(h, n) == CHOOSE m \in DOMAIN h : n \in Kids(h, {m})

\* lines is a listing of the tree h from the node start: every node below
\* start is on exactly one line, under its own name, after its parent and
\* one level deeper; siblings are in ascending order of name; the
\* last-sibling mark is on the lines that no sibling follows, and only there
IsOrderedListing(h, start, lines) ==
    LET L == 1..Len(lines) IN
    /\ {lines[i].node : i \in L} = Descendants(h, start)
    /\ Len(lines) = Cardinality(Descendants(h, start))
    /\ \A i \in L :
           /\ lines[i].name = h[lines[i].node].name
           /\ lines[i].node \in Kids(h, {start}) => lines[i].indent = 0
           /\ lines[i].is_last <=>
                  ~\E j \in L : j > i /\ ParentOf(h, lines[j].node)
                                            = ParentOf(h, lines[i].node)
    /\ \A i, j \in L :
           /\ lines[j].node \in Kids(h, {lines[i].node})
                  => i < j /\ lines[j].indent = lines[i].indent + 1
           /\ (i < j /\ ParentOf(h, lines[i].node) = ParentOf(h, lines[j].node))
                  => StrLess(lines[i].name, lines[j].name)

\* C13: In every reachable tree, list emits every node below its start node
\* exactly once, each parent before its children, and at every level the
\* children in strictly ascending alphabetical order of name (the order of
\* str comparison, character by character), whatever the order in which
\* they were created or moved in; the last-sibling mark is set on exactly
\* the final child of each level.
C13_ListOrdered ==
    last.op = "list" =>
        /\ IsOrderedListing(heap, root, last.listing)
        /\ \A start \in DOMAIN heap :
               IsOrderedListing(heap, start, list(heap, start, 0))

\* A tree with three directories at the root, one of them with a child, has
\* been listed: a, then a's child, then b, then list, which is marked last.
C13_Witness ==
    /\ last.op = "list"
    /\ Len(last.listing) = 4
    /\ [i \in 1..4 |-> last.listing[i].name]
           = << <<"a">>, <<"b">>, <<"b">>, <<"l", "i", "s", "t">> >>
    /\ [i \in 1..4 |-> last.listing[i].indent] = <<0, 1, 0, 0>>
    /\ [i \in 1..4 |-> last.listing[i].is_last] = <<FALSE, TRUE, FALSE, TRUE>>

\* the characters a name may not contain: the separator and \ : * ? " < > |
ForbiddenInNames == {"/", "\\", ":", "*", "?", "\"", "<", ">", "|"}

\* a name a node below the root may have
IsProperName(name) ==
    name # <<>> /\ \A i \in 1..Len(name) : name[i] \notin ForbiddenInNames

\* C14: In every reachable tree every node but the root has a non-empty
\* name that contains neither the separator nor a reserved character, the
\* name equals the key under which its parent holds it (so names are unique
\* among siblings), and the root keeps the empty name.
C14_NamesWellFormed ==
    /\ heap[root].name = <<>>
    /\ \A n \in (DOMAIN heap) \ {root} : IsProperName(heap[n].name)
    /\ \A m \in DOMAIN heap : \A k \in DOMAIN heap[m].children :
           /\ heap[m].children[k] # root
           /\ heap[heap[m].children[k]].name = k

\* move("a", "b") has made the directory b and put a under it: the new
\* node is named b, the moved one is still named a and is held under a.
C14_Witness ==
    /\ last.op = "move"
    /\ last.outcome = "moved"
    /\ last.path = <<"a">>
    /\ last.destination = <<"b">>
    /\ NodeAt(pre, <<<<"b">>>>) = None
    /\ heap[NodeAt(heap, <<<<"b">>>>)].name = <<"b">>
    /\ NodeAt(heap, <<<<"b">>, <<"a">>>>) = NodeAt(pre, <<<<"a">>>>)
    /\ heap[NodeAt(heap, <<<<"b">>, <<"a">>>>)].name = <<"a">>

\* the last command was delete(P), P a path with at least one segment that
\* is not a true root form, and in the tree before it an ancestor segment
\* of P was missing or the parent did not hold P's last segment
DeletedAMissingPath ==
    /\ last.op = "delete"
    /\ SegmentsOf(last.path) # <<>>
    /\ last.path \notin TrueRootForms
    /\ LET segs   == SegmentsOf(last.path)
           parent == NodeAt(pre, SubSeq(segs, 1, Len(segs) - 1))
       IN  \/ parent = None
           \/ segs[Len(segs)] \notin DOMAIN pre[parent].children

\* C15: delete of a non-root path whose parent is absent (an ancestor
\* segment is missing) or whose last segment is not among the parent's
\* children fails with the not-found outcome, asks for no confirmation and
\* leaves the tree unchanged.
C15_MissingPathNotFound ==
    DeletedAMissingPath =>
        /\ last.outcome = "notFound"
        /\ ~last.asked
        /\ heap = pre

\* The statement of C15 for the paths that are not one of the strings
\* delete compares literally.
C15_ExceptLiteralAliases ==
    last.path \notin RootAliases => C15_MissingPathNotFound

\* the root node is there, under the empty name, and no dict holds it
RootPersists(h) ==
    /\ root \in DOMAIN h
    /\ h[root].name = <<>>
    /\ ParentEdges(h, root) = {}

\* what a delete of the root is to do: it asks; answered yes it leaves the
\* root with no children, on which a later create works; declined it
\* leaves the tree as it was
RootDeleteAsksAndClears ==
    /\ last.asked
    /\ IF last.answer \in YesAnswers
       THEN /\ last.outcome = "deletedRoot"
            /\ DOMAIN heap[root].children = {}
            /\ NodeAt(create(heap, <<"a", "/", "b">>).heap,
                      <<<<"a">>, <<"b">>>>) # None
       ELSE /\ last.outcome = "cancelled"
            /\ heap = pre

\* C16: delete with a root path (a path with no segment: the empty path,
\* "/", any run of separators; or the alias "root") always asks for
\* confirmation first; confirmed, it removes all children of the root
\* while the root node itself persists (same node, empty name, usable by
\* later creates); declined, the tree is unchanged. No sequence of
\* operations ever removes or replaces the root node.
C16_RootDelete ==
    /\ RootPersists(heap)
    /\ (last.op = "delete"
           /\ (SegmentsOf(last.path) = <<>> \/ last.path \in TrueRootForms))
           => RootDeleteAsksAndClears

\* The statement of C16 for the root paths that are one of the strings
\* delete compares literally.
C16_ForLiteralRootForms ==
    /\ RootPersists(heap)
    /\ (last.op = "delete" /\ last.path \in RootAliases)
           => RootDeleteAsksAndClears

\* isValidPath, from its description: the path is not empty and none of its
\* segments has a reserved character
PassesIsValidPath(path) ==
    /\ path # <<>>
    /\ \A i \in 1..Len(SegmentsOf(path)) : IsProperName(SegmentsOf(path)[i])

\* C17: create on a comma-expanded specification handles each expanded
\* sub-path on its own: every sub-path that fails isValidPath gets one
\* failure record and adds no node, every valid sub-path gets one success
\* record and exists afterwards, and an invalid sub-path never prevents the
\* creation of the valid sub-paths before or after it.
C17_SubPathsIndependent ==
    last.op = "create" =>
        LET subs   == expand_path_list(last.path)
            valid  == {i \in 1..Len(subs) : PassesIsValidPath(subs[i])}
        IN  /\ Len(last.report) = Len(subs)
            /\ \A i \in 1..Len(subs) :
                   /\ last.report[i].path = subs[i]
                   /\ last.report[i].outcome =
                          IF i \in valid THEN "success" ELSE "invalidName"
                   /\ i \in valid => NodeAt(heap, SegmentsOf(subs[i])) # None
            /\ \A n \in (DOMAIN heap) \ (DOMAIN pre) :
                   \E i \in valid : \E q \in Prefixes(SegmentsOf(subs[i])) :
                       NodeAt(heap, q) = n

\* create("a,:,b") has run in a tree that had neither a nor b: the report
\* is a success, a failure and a success, and a and b are the new nodes.
C17_Witness ==
    /\ last.op = "create"
    /\ last.path = <<"a", ",", ":", ",", "b">>
    /\ Outcomes(last.report) = <<"success", "invalidName", "success">>
    /\ NodeAt(pre, <<<<"a">>>>) = None
    /\ NodeAt(pre, <<<<"b">>>>) = None
    /\ NodeAt(heap, <<<<"a">>>>) # None
    /\ NodeAt(heap, <<<<"b">>>>) # None
    /\ Cardinality(DOMAIN heap) = Cardinality(DOMAIN pre) + 2

\* C18: list performs no mutation: in every reachable tree the tree after a
\* list call is identical to the tree before it, and list on an empty tree
\* produces no entries.
C18_ListChangesNothing ==
    last.op = "list" =>
        /\ heap = pre
        /\ DOMAIN pre[root].children = {} => last.listing = <<>>

\* A tree of two levels has been listed, and is as it was.
C18_Witness ==
    /\ last.op = "list"
    /\ Len(last.listing) >= 2
    /\ \E i \in 1..Len(last.listing) : last.listing[i].indent = 1
    /\ heap = pre

\* The empty tree has been listed: no entry, and the root is as it was.
C18_WitnessEmpty ==
    /\ last.op = "list"
    /\ DOMAIN pre[root].children = {}
    /\ last.listing = <<>>
    /\ heap = pre

\* the pieces of s between the occurrences of c, read character by
\* character, the empty pieces too
RECURSIVE PiecesFrom(_, _, _)
PiecesFrom(s, c, cur) ==
    IF s = <<>> THEN <<cur>>
    ELSE IF Head(s) = c THEN <<cur>> \o PiecesFrom(Tail(s), c, <<>>)
    ELSE PiecesFrom(Tail(s), c, Append(cur, Head(s)))

\* the positions of c in s
Positions(s, c) == {i \in 1..Len(s) : s[i] = c}

\* the first and the last position of a non-empty set of positions
FirstOf(P) == CHOOSE i \in P : \A j \in P : i <= j
LastOf(P) == CHOOSE i \in P : \A j \in P : j <= i

\* s without the blanks at its ends
Trimmed(s) ==
    LET P == {i \in 1..Len(s) : s[i] \notin {" ", "\t", "\n", "\r"}}
    IN  IF P = {} THEN <<>> ELSE SubSeq(s, FirstOf(P), LastOf(P))

\* the trimmed pieces of s split on commas, those that are not empty
TrimmedPieces(s) ==
    SelectSeq([i \in 1..Len(PiecesFrom(s, ",", <<>>)) |->
                  Trimmed(PiecesFrom(s, ",", <<>>)[i])],
              LAMBDA p : p # <<>>)

\* what expandList is to return
ExpectedExpansion(path) ==
    LET commas == Positions(path, ",")
        seps   == Positions(path, "/")
    IN  IF commas = {} THEN <<path>>
        ELSE IF seps = {} \/ FirstOf(commas) < FirstOf(seps)
        THEN TrimmedPieces(path)
        ELSE LET base   == SubSeq(path, 1, LastOf(seps))
                 pieces == TrimmedPieces(SubSeq(path, LastOf(seps) + 1, Len(path)))
             IN  [i \in 1..Len(pieces) |-> base \o pieces[i]]

\* the sub-paths the last create reported on, in order
ReportedPaths == [i \in 1..Len(last.report) |-> last.report[i].path]

\* C19: expandList returns [path] when the path has no comma; when the
\* first comma comes before the first separator (or there is no separator)
\* the trimmed, non-empty pieces of the whole string split on commas;
\* otherwise the trimmed, non-empty pieces of the text after the last
\* separator, each prefixed with everything up to and including that
\* separator. So "fruits,family" gives ["fruits", "family"],
\* "fruits/citrus/lemon,lime" gives ["fruits/citrus/lemon",
\* "fruits/citrus/lime"], and create("x,y/z") creates the two root paths
\* "x" and "y/z".
C19_ExpandList ==
    last.op = "create" =>
        /\ ReportedPaths = expand_path_list(last.path)
        /\ expand_path_list(last.path) = ExpectedExpansion(last.path)
        /\ last.path = FruitsFamily
               => ReportedPaths = << <<"f", "r", "u", "i", "t", "s">>, <<"f", "a", "m", "i", "l", "y">> >>
        /\ last.path = FruitsCitrusLemonLime
               => ReportedPaths = << <<"f", "r", "u", "i", "t", "s", "/", "c", "i", "t", "r", "u", "s", "/", "l", "e", "m", "o", "n">>,
                                     <<"f", "r", "u", "i", "t", "s", "/", "c", "i", "t", "r", "u", "s", "/", "l", "i", "m", "e">> >>
        /\ last.path = XYZ
               => /\ ReportedPaths = << <<"x">>, <<"y", "/", "z">> >>
                  /\ Outcomes(last.report) = <<"success", "success">>
                  /\ NodeAt(heap, << <<"x">> >>) # None
                  /\ NodeAt(heap, << <<"y">>, <<"z">> >>) # None
                  /\ ParentOf(heap, NodeAt(heap, << <<"x">> >>)) = root
                  /\ ParentOf(heap, NodeAt(heap, << <<"y">> >>)) = root

\* create("x,y/z") has run on the empty tree: x and y are the two children
\* of the root, z is under y, and there is no other node.
C19_Witness ==
    /\ last.op = "create"
    /\ last.path = XYZ
    /\ DOMAIN heap[root].children = {<<"x">>, <<"y">>}
    /\ NodeAt(heap, << <<"y">>, <<"z">> >>) # None
    /\ Cardinality(DOMAIN heap) = 4

\* create("/a/,") has run: the comma comes after a separator, the text after
\* the last separator has no piece left once trimmed, and nothing is made.
C19_WitnessNothingLeft ==
    /\ last.op = "create"
    /\ last.path = <<"/", "a", "/", ",">>
    /\ last.report = <<>>
    /\ heap = pre

\* the dict entries of nodes reachable from the root that refer to n
ReachableParentEdges(h, n) == {e \in ParentEdges(h, n) : e[1] \in Reachable(h)}

\* C20: list terminates in every reachable state: after any sequence of
\* create, delete and move calls the structure reachable from the root is a
\* finite tree (no node reachable from the root is below itself, each but
\* the root is held by exactly one reachable dict entry), so the recursive
\* listing from the root finishes, with one line for each node below the
\* root.
C20_ReachableIsFiniteTree ==
    /\ \A n \in Reachable(heap) : n \notin Descendants(heap, n)
    /\ \A n \in Reachable(heap) \ {root} :
           Cardinality(ReachableParentEdges(heap, n)) = 1
    /\ ReachableParentEdges(heap, root) = {}
    /\ Len(list(heap, root, 0)) = Cardinality(Reachable(heap)) - 1
    /\ last.op = "list" => last.listing = list(pre, root, 0)

\* A move has succeeded and left a node that is its own child; no walk
\* from the root reaches it, and the listing from the root still shows the
\* other directory.
C20_Witness ==
    /\ last.op = "move"
    /\ last.outcome = "moved"
    /\ \E n \in DOMAIN heap :
           n \in Descendants(heap, n) /\ n \notin Reachable(heap)
    /\ Len(list(heap, root, 0)) >= 1

\* A tree of three levels has been listed.
C20_WitnessListed ==
    /\ last.op = "list"
    /\ \E i \in 1..Len(last.listing) : last.listing[i].indent = 2

\* C21: create only adds: for any path specification and any reachable
\* tree, every path that resolved to a node before a create call resolves
\* to the same node after it, with the same name and the same children
\* (plus possibly new ones); create never removes, renames or re-parents an
\* existing node.
C21_CreateOnlyAdds ==
    last.op = "create" =>
        /\ \A n \in DOMAIN pre :
               /\ n \in DOMAIN heap
               /\ heap[n].name = pre[n].name
               /\ \A k \in DOMAIN pre[n].children :
                      /\ k \in DOMAIN heap[n].children
                      /\ heap[n].children[k] = pre[n].children[k]
               /\ \A k \in (DOMAIN heap[n].children) \ (DOMAIN pre[n].children) :
                      heap[n].children[k] \notin DOMAIN pre
               /\ ParentEdges(heap, n) = ParentEdges(pre, n)
        /\ \A P \in PathArgs :
               NodeAt(pre, SegmentsOf(P)) # None
                   => NodeAt(heap, SegmentsOf(P)) = NodeAt(pre, SegmentsOf(P))

\* A create has put a new directory under a, which had a child already and
\* has kept it.
C21_Witness ==
    /\ last.op = "create"
    /\ NodeAt(pre, <<<<"a">>>>) # None
    /\ DOMAIN pre[NodeAt(pre, <<<<"a">>>>)].children = {<<"a">>}
    /\ DOMAIN heap[NodeAt(pre, <<<<"a">>>>)].children = {<<"a">>, <<"b">>}
    /\ NodeAt(heap, <<<<"a">>, <<"a">>>>) = NodeAt(pre, <<<<"a">>, <<"a">>>>)
    /\ NodeAt(heap, <<<<"a">>, <<"b">>>>) \notin DOMAIN pre

====
